---------------------------- MODULE Spec2Model ----------------------------
(***************************************************************************)
(* A model of src/main.py: the crypto news digest.  One run of main() is   *)
(* fetch_crypto_news() (HTTP GET, XML parse, keyword filter), then         *)
(* generate_markdown() (clock read in Asia/Seoul, file name and Markdown   *)
(* body), then the directory check and the file write.                     *)
(*                                                                         *)
(* Python str values are TLA+ strings; Len, \o, SubSeq, Head and Tail act  *)
(* on them character by character.  The module is kept in ASCII, so the    *)
(* non-ASCII literals of the Markdown template are written as bracketed    *)
(* ASCII glosses of the same text (see the definitions under "template").  *)
(***************************************************************************)
EXTENDS Integers, Sequences, FiniteSets, TLC

VARIABLES
    pc,          \* where main() is: start, fetched, rendered, dir_ready, done, crashed
    run,         \* which run of main() this is (1, 2, ...)
    hostOffset,  \* the host's own UTC offset in minutes (TZ of the machine)
    now,         \* the system clock, minutes since 1970-01-01T00:00Z
    fetch,       \* what requests.get / raise_for_status did in this run
    gets,        \* number of requests.get calls made in this run
    items,       \* fetch_crypto_news: the parsed fields of soup.find_all("item")
    articles,    \* main: articles (fetch_crypto_news's filtered_articles)
    filename,    \* main: filename
    content,     \* main: content
    dirs,        \* file system: the directories that exist
    files,       \* file system: path -> text of each file under SAVE_DIR
    dirCheck,    \* this run's os.path.exists(SAVE_DIR) answer and whether makedirs ran
    failure,     \* why the run crashed ("" while it has not)
    prev         \* <<[filename, content]>> of the previous run that wrote, or <<>>

vars == <<pc, run, hostOffset, now, fetch, gets, items, articles, filename,
          content, dirs, files, dirCheck, failure, prev>>

---------------------------------------------------------------------------
(* Bounds of the model. *)

\* longest feed (number of <item> elements) a response carries
MaxItems == 2

\* runs of main() in the specification of repeated runs
MaxRuns == 2

---------------------------------------------------------------------------
(* Strings. *)

UpperAlpha == "ABCDEFGHIJKLMNOPQRSTUVWXYZ"
LowerAlpha == "abcdefghijklmnopqrstuvwxyz"
Digits == "0123456789"

\* the i-th character of s, as a one-character string
Char(s, i) == SubSeq(s, i, i)

\* the upper-case letters, and the lower-case letter of each
UpperChars == {Char(UpperAlpha, i) : i \in 1..Len(UpperAlpha)}

LowerOf ==
    [c \in UpperChars |->
        Char(LowerAlpha, CHOOSE i \in 1..Len(UpperAlpha) : Char(UpperAlpha, i) = c)]

\* str.lower() of one character (ASCII input)
LowerChar(c) == IF c \in UpperChars THEN LowerOf[c] ELSE c

\* str.lower(): every character lowered, the others kept
RECURSIVE Lower(_)
Lower(s) ==
    IF Len(s) = 0 THEN ""
    ELSE IF Len(s) = 1 THEN LowerChar(s)
    ELSE LET h == Len(s) \div 2
         IN  Lower(SubSeq(s, 1, h)) \o Lower(SubSeq(s, h + 1, Len(s)))

\* Python's "k in s" for strings: k occurs in s as a contiguous substring
Contains(s, k) ==
    \E i \in 0..(Len(s) - Len(k)) : SubSeq(s, i + 1, i + Len(k)) = k

\* the characters str.strip() removes
IsSpace(c) == c \in {" ", "\n", "\t", "\r"}

\* str.strip(): leading and trailing whitespace removed, the inside kept
Strip(s) ==
    LET keep == {i \in 1..Len(s) : ~IsSpace(Char(s, i))}
    IN  IF keep = {} THEN ""
        ELSE LET lo == CHOOSE i \in keep : \A j \in keep : i <= j
                 hi == CHOOSE i \in keep : \A j \in keep : i >= j
             IN  SubSeq(s, lo, hi)

\* a string of n copies of the character c
RECURSIVE Rep(_, _)
Rep(c, n) ==
    IF n = 0 THEN ""
    ELSE IF n % 2 = 0 THEN LET h == Rep(c, n \div 2) IN h \o h
    ELSE c \o Rep(c, n - 1)

\* sep.join(seq)
RECURSIVE Join(_, _)
Join(sep, seq) ==
    IF Len(seq) = 0 THEN ""
    ELSE IF Len(seq) = 1 THEN seq[1]
    ELSE seq[1] \o sep \o Join(sep, Tail(seq))

\* str(n) for a natural number n
RECURSIVE Str(_)
Str(n) == IF n < 10 THEN Char(Digits, n + 1) ELSE Str(n \div 10) \o Char(Digits, (n % 10) + 1)

\* strftime's zero-padded fields: %m, %d, %H, %M (two digits) and %Y (four)
Pad2(n) == Char(Digits, (n \div 10) + 1) \o Char(Digits, (n % 10) + 1)
Pad4(n) == Pad2(n \div 100) \o Pad2(n % 100)

---------------------------------------------------------------------------
(* Configuration. *)

KEYWORDS == <<"Bitcoin", "Ethereum", "Solana", "BTC", "ETH", "SOL">>

SAVE_DIR == "ObsidianVault/News/Crypto"

\* SAVE_DIR and the directories above it, outermost first
SaveDirChain == <<"ObsidianVault", "ObsidianVault/News", "ObsidianVault/News/Crypto">>

\* description[:200] and len(description) > 200
SummaryLimit == 200

\* Asia/Seoul is UTC+9 all year (no daylight saving time)
KstOffsetMinutes == 540


---------------------------------------------------------------------------
(* The clock: datetime.datetime.now(kst), strftime and now.hour. *)

\* days since 1970-01-01 of the proleptic Gregorian date y-m-d
DaysFromCivil(y, m, d) ==
    LET yy  == IF m <= 2 THEN y - 1 ELSE y
        era == yy \div 400
        yoe == yy - era * 400
        mp  == IF m > 2 THEN m - 3 ELSE m + 9
        doy == (153 * mp + 2) \div 5 + d - 1
        doe == yoe * 365 + yoe \div 4 - yoe \div 100 + doy
    IN  era * 146097 + doe - 719468

\* the Gregorian date of day z since 1970-01-01: what datetime makes of a timestamp
CivilFromDays(z) ==
    LET zz  == z + 719468
        era == zz \div 146097
        doe == zz - era * 146097
        yoe == (doe - doe \div 1460 + doe \div 36524 - doe \div 146096) \div 365
        doy == doe - (365 * yoe + yoe \div 4 - yoe \div 100)
        mp  == (5 * doy + 2) \div 153
        d   == doy - (153 * mp + 2) \div 5 + 1
        m   == IF mp < 10 THEN mp + 3 ELSE mp - 9
        y   == yoe + era * 400 + (IF m <= 2 THEN 1 ELSE 0)
    IN  [year |-> y, month |-> m, day |-> d]

\* the instant y-m-d hh:mi UTC, in minutes since the epoch
UtcMinutes(y, m, d, hh, mi) == DaysFromCivil(y, m, d) * 1440 + hh * 60 + mi

\* the mutant of Localize: datetime.datetime.now() without a zone, the host's
\* own wall clock
NaiveLocalize(t, host) == t + host

\* datetime.datetime.now(kst): the wall clock of Asia/Seoul at instant t, in
\* minutes, on a host whose own zone is `host`
Localize(t, host) == t + KstOffsetMinutes

\* now.hour and now.minute of a wall clock
HourOf(wall) == (wall \div 60) % 24
MinuteOf(wall) == wall % 60

\* now.strftime("%Y-%m-%d")
DateStr(wall) ==
    LET c == CivilFromDays(wall \div 1440)
    IN  Pad4(c.year) \o "-" \o Pad2(c.month) \o "-" \o Pad2(c.day)

\* now.strftime("%H:%M")
TimeStr(wall) == Pad2(HourOf(wall)) \o ":" \o Pad2(MinuteOf(wall))

\* "Morning" if now.hour < 12 else "Evening"
Period(hour) == IF hour < 12 THEN "Morning" ELSE "Evening"

\* f"{date_str}-{period}-Brief.md"
FileName(date_str, period) == date_str \o "-" \o period \o "-Brief.md"

---------------------------------------------------------------------------
(* fetch_crypto_news: the fields of one <item>, the filter, the summary. *)

\* item.X.text.strip() if item.X else default; a field is <<>> when the element
\* is absent and <<text>> when it is present
FieldText(field, default) == IF field = <<>> THEN default ELSE Strip(field[1])

\* title, link, description, pub_date of one <item>
ParseItem(raw) ==
    [title       |-> FieldText(raw.title, "No Title"),
     link        |-> FieldText(raw.link, "#"),
     description |-> FieldText(raw.description, ""),
     pub_date    |-> FieldText(raw.pubDate, "")]

\* soup.find_all("item"), each with its fields read, in document order
ParseFeed(feed) == [i \in 1..Len(feed) |-> ParseItem(feed[i])]

\* the mutant of TextToCheck: the title alone is searched
TextToCheckTitleOnly(title, description) == Lower(title)

\* text_to_check = (title + " " + description).lower()
TextToCheck(title, description) == Lower(title \o " " \o description)

\* the mutant of MatchedKeywords: keywords compared without lowering them
MatchedKeywordsCaseSensitive(text) ==
    SelectSeq(KEYWORDS, LAMBDA k : Contains(text, k))

\* the mutant of MatchedKeywords: the first matching keyword only
MatchedKeywordsFirstOnly(text) ==
    LET all == SelectSeq(KEYWORDS, LAMBDA k : Contains(text, Lower(k)))
    IN  IF all = <<>> THEN <<>> ELSE <<all[1]>>

\* matched_keywords = [k for k in KEYWORDS if k.lower() in text_to_check]
MatchedKeywords(text) ==
    SelectSeq(KEYWORDS, LAMBDA k : Contains(text, Lower(k)))

\* the mutant of Summary: a description of exactly the limit is cut too
SummaryCutAtLimit(description) ==
    IF Len(description) >= SummaryLimit
    THEN SubSeq(description, 1, SummaryLimit) \o "..."
    ELSE description

\* description[:200] + "..." if len(description) > 200 else description
Summary(description) ==
    IF Len(description) > SummaryLimit
    THEN SubSeq(description, 1, SummaryLimit) \o "..."
    ELSE description

\* the dict appended to filtered_articles
MakeArticle(item, matched_keywords) ==
    [title    |-> item.title,
     link     |-> item.link,
     desc     |-> Summary(item.description),
     date     |-> item.pub_date,
     keywords |-> matched_keywords]

\* for item in items: ... if matched_keywords: filtered_articles.append({...})
RECURSIVE FilterLoop(_, _)
FilterLoop(rest, filtered_articles) ==
    IF rest = <<>> THEN filtered_articles
    ELSE LET item == Head(rest)
             matched_keywords ==
                 MatchedKeywords(TextToCheck(item.title, item.description))
         IN  FilterLoop(Tail(rest),
                 IF matched_keywords # <<>>
                 THEN Append(filtered_articles, MakeArticle(item, matched_keywords))
                 ELSE filtered_articles)

\* response.raise_for_status(): HTTPError for a 4xx or 5xx status, else nothing
RaisesForStatus(status) == 400 <= status /\ status < 600

\* the try block: requests.get raised (no response), or raise_for_status did
FetchFailed(outcome) ==
    outcome.kind # "response" \/ RaisesForStatus(outcome.status)

\* the mutant of FetchCryptoNewsResult: a failed fetch is tried once more
FetchCryptoNewsRetry(outcome) ==
    IF FetchFailed(outcome)
    THEN [gets |-> 2, items |-> <<>>, articles |-> <<>>]
    ELSE [gets |-> 1, items |-> ParseFeed(outcome.feed),
          articles |-> FilterLoop(ParseFeed(outcome.feed), <<>>)]

\* fetch_crypto_news() on one outcome of the request: the requests made, the
\* parsed items and the returned list
FetchCryptoNewsResult(outcome) ==
    IF FetchFailed(outcome)
    THEN [gets |-> 1, items |-> <<>>, articles |-> <<>>]
    ELSE [gets |-> 1, items |-> ParseFeed(outcome.feed),
          articles |-> FilterLoop(ParseFeed(outcome.feed), <<>>)]

---------------------------------------------------------------------------
(* generate_markdown: the template.  The non-ASCII literals of the source  *)
(* are glossed in ASCII: [U+1F4C5] is the calendar emoji, [U+1F6AB] the    *)
(* no-entry emoji, [U+1F517] the link emoji, and a bracketed English       *)
(* phrase stands for the Korean phrase at that place.                      *)

\* "\n### (no-entry emoji) (there are no related new articles).\n"
NoArticlesNotice == "\n### [U+1F6AB] [there are no related new articles].\n"

\* the f-string md_content starts as: front matter, title line, bot message
Header(date_str, time_str, period) ==
    "---\n"
    \o "title: \"" \o date_str \o " " \o period \o " Crypto Briefing\"\n"
    \o "date: " \o date_str \o "\n"
    \o "time: " \o time_str \o "\n"
    \o "tags:\n"
    \o "  - news\n"
    \o "  - crypto\n"
    \o "  - automation\n"
    \o "---\n"
    \o "\n"
    \o "# [U+1F4C5] " \o date_str \o " " \o period \o " [cryptocurrency top news]\n"
    \o "\n"
    \o "> **[automation bot message]**: [current time] " \o time_str
    \o " [as of], **" \o Join(", ", KEYWORDS)
    \o "** [related top articles summarised].\n"
    \o "\n"
    \o "---\n"
    \o "\n"

\* the five md_content += lines of one article
ArticleBlock(idx, article) ==
    "## " \o Str(idx) \o ". " \o article.title \o "\n\n"
    \o "- **[related keywords]**: #" \o Join(" #", article.keywords) \o "\n"
    \o "- **[published]**: " \o article.date \o "\n"
    \o "- **[summary]**: " \o article.desc \o "\n\n"
    \o "> [[U+1F517] [go to the original article]](" \o article.link \o ")\n\n"
    \o "---\n"

\* the mutant of RenderArticles: the articles are written last to first
RECURSIVE RenderArticlesReversed(_, _, _)
RenderArticlesReversed(rest, idx, md_content) ==
    IF rest = <<>> THEN md_content
    ELSE RenderArticlesReversed(SubSeq(rest, 1, Len(rest) - 1), idx + 1,
                                md_content \o ArticleBlock(idx, rest[Len(rest)]))

\* for idx, article in enumerate(articles, 1): md_content += ...
RECURSIVE RenderArticles(_, _, _)
RenderArticles(rest, idx, md_content) ==
    IF rest = <<>> THEN md_content
    ELSE RenderArticles(Tail(rest), idx + 1,
                        md_content \o ArticleBlock(idx, Head(rest)))

\* generate_markdown(articles) with the clock at instant t on a host in zone
\* `host`: the pair it returns
GenerateMarkdownResult(arts, t, host) ==
    LET wall     == Localize(t, host)
        date_str == DateStr(wall)
        time_str == TimeStr(wall)
        period   == Period(HourOf(wall))
        head     == Header(date_str, time_str, period)
    IN  [filename |-> FileName(date_str, period),
         content  |-> IF arts = <<>>
                      THEN head \o NoArticlesNotice
                      ELSE RenderArticles(arts, 1, head)]

\* os.path.join(SAVE_DIR, filename)
FilePath(name) == SAVE_DIR \o "/" \o name

---------------------------------------------------------------------------
(* The inputs: feeds, responses, instants, hosts, initial file systems. *)

\* an <item> with all four elements present
RawItem(title, link, description, pubDate) ==
    [title |-> <<title>>, link |-> <<link>>,
     description |-> <<description>>, pubDate |-> <<pubDate>>]

\* one keyword in the title, an empty description
ItemBtc == RawItem("BTC hits new high", "https://n.example/a", "", "Fri, 01 Mar 2024 00:10:00 +0000")

\* text to strip; "Bitcoin" without "BTC", "Ethereum" and "Solana" in mixed case
ItemMany == RawItem("  ETHEREUM upgrade\n", " https://n.example/b ", "\tbitcoin and Solana rally ", "Fri, 01 Mar 2024 00:20:00 +0000")

\* no element present: every default applies, nothing matches
ItemBare == [title |-> <<>>, link |-> <<>>, description |-> <<>>, pubDate |-> <<>>]

\* keywords only inside longer words (mETHod, reSOLves); no description, no date
ItemInside == [title |-> <<"New payment method resolves fees">>, link |-> <<"https://n.example/d">>, description |-> <<>>, pubDate |-> <<>>]

\* nothing matches, all elements present
ItemNone == RawItem("Stocks fall", "https://n.example/e", "Rates rise", "Fri, 01 Mar 2024 00:30:00 +0000")

\* a description of exactly 200 characters
ItemAtLimit == RawItem("Bitcoin ETF", "https://n.example/f", "b" \o Rep("a", 199), "")

\* a description of 201 characters
ItemOverLimit == RawItem("Bitcoin", "https://n.example/g", "c" \o Rep("a", 199) \o "z", "")

\* a description of 250 characters whose only keyword lies after the 200th
ItemLong == RawItem("Markets today", "https://n.example/h", "d" \o Rep("a", 239) \o " SOLANA up", "")

\* a title that holds a line break and a heading of its own, and a
\* description that holds the text of the notice
ItemInject == RawItem("Bitcoin\n## 7. Fake", "https://n.example/i", "sol" \o NoArticlesNotice \o "x", "")

ItemPool == {ItemBtc, ItemMany, ItemBare, ItemInside, ItemAtLimit,
             ItemOverLimit, ItemLong, ItemInject}

\* all sequences over S of length at most n
SeqsUpTo(S, n) == UNION {[1..k -> S] : k \in 0..n}

\* the feeds of the full specification
FeedPool == SeqsUpTo(ItemPool, MaxItems)

\* three feeds: none, one that matches, one of two items
SmallFeedPool == {<<>>, <<ItemBtc>>, <<ItemNone, ItemInside>>}

\* what the one request can come to: a response with a status and a body, or
\* an exception of requests (no response)
Outcomes(pool) ==
    {[kind |-> "response", status |-> 200, feed |-> f] : f \in pool}
    \cup {[kind |-> "response", status |-> st, feed |-> f] :
            st \in {300, 404, 503}, f \in {<<>>, <<ItemBtc>>}}
    \cup {[kind |-> k, status |-> 0, feed |-> <<>>] :
            k \in {"ConnectionError", "Timeout"}}

\* instants of the clock (UTC), and what Asia/Seoul shows then
Instants ==
    {UtcMinutes(2024, 2, 29, 14, 59),   \* 2024-02-29 23:59
     UtcMinutes(2024, 2, 29, 15, 0),    \* 2024-03-01 00:00
     UtcMinutes(2024, 3, 1, 0, 30),     \* 2024-03-01 09:30
     UtcMinutes(2024, 3, 1, 2, 59),     \* 2024-03-01 11:59
     UtcMinutes(2024, 3, 1, 3, 0),      \* 2024-03-01 12:00
     UtcMinutes(2024, 3, 1, 9, 0),      \* 2024-03-01 18:00
     UtcMinutes(2024, 3, 1, 20, 0),     \* 2024-03-02 05:00
     UtcMinutes(2024, 12, 31, 15, 0)}   \* 2025-01-01 00:00

\* the two instants of the documented examples
ExampleInstants ==
    {UtcMinutes(2024, 3, 1, 0, 30),     \* 2024-03-01 09:30
     UtcMinutes(2024, 3, 1, 9, 0)}      \* 2024-03-01 18:00

\* three instants of one day, two of them in the same period
FewInstants ==
    {UtcMinutes(2024, 3, 1, 0, 30),     \* 2024-03-01 09:30
     UtcMinutes(2024, 3, 1, 1, 0),      \* 2024-03-01 10:00
     UtcMinutes(2024, 3, 1, 9, 0)}      \* 2024-03-01 18:00

\* host zones: UTC, and UTC-5
HostOffsets == {0, -300}

\* the elements of a sequence
Range(seq) == {seq[i] : i \in DOMAIN seq}

\* the file systems a run can start in: any part of the chain of directories
\* present, and, with SAVE_DIR present, no file or files of earlier digests
InitialDirs == {{SaveDirChain[i] : i \in 1..k} : k \in 0..Len(SaveDirChain)}

StaleFiles ==
    [p \in {FilePath("2024-03-01-Morning-Brief.md"),
            FilePath("2024-03-01-Evening-Brief.md")} |-> "stale"]

NoFiles == [p \in {} |-> ""]

---------------------------------------------------------------------------
(* main(), one action per step. *)

\* a run about to start, on one of the given hosts and file systems
InitOn(hosts, dirsets) ==
    /\ pc = "start"
    /\ run = 1
    /\ hostOffset \in hosts
    /\ now = 0
    /\ fetch = [kind |-> "none", status |-> 0]
    /\ gets = 0
    /\ items = <<>>
    /\ articles = <<>>
    /\ filename = ""
    /\ content = ""
    /\ dirs \in dirsets
    /\ files \in (IF SAVE_DIR \in dirs THEN {NoFiles, StaleFiles} ELSE {NoFiles})
    /\ dirCheck = [existed |-> FALSE, made |-> FALSE]
    /\ failure = ""
    /\ prev = <<>>

\* articles = fetch_crypto_news()
FetchCryptoNews(pool) ==
    /\ pc = "start"
    /\ \E outcome \in Outcomes(pool) :
          LET r == FetchCryptoNewsResult(outcome)
          IN  /\ fetch' = [kind |-> outcome.kind, status |-> outcome.status]
              /\ gets' = gets + r.gets
              /\ items' = r.items
              /\ articles' = r.articles
    /\ pc' = "fetched"
    /\ UNCHANGED <<run, hostOffset, now, filename, content, dirs, files,
                   dirCheck, failure, prev>>

\* filename, content = generate_markdown(articles); the clock does not go back
GenerateMarkdown(instants) ==
    /\ pc = "fetched"
    /\ \E t \in instants :
          /\ t >= now
          /\ now' = t
          /\ LET r == GenerateMarkdownResult(articles, t, hostOffset)
             IN  /\ filename' = r.filename
                 /\ content' = r.content
    /\ pc' = "rendered"
    /\ UNCHANGED <<run, hostOffset, fetch, gets, items, articles, dirs, files,
                   dirCheck, failure, prev>>

\* if not os.path.exists(SAVE_DIR): os.makedirs(SAVE_DIR)
EnsureDir ==
    /\ pc = "rendered"
    /\ IF SAVE_DIR \in dirs
       THEN /\ dirCheck' = [existed |-> TRUE, made |-> FALSE]
            /\ dirs' = dirs
       ELSE /\ dirCheck' = [existed |-> FALSE, made |-> TRUE]
            /\ dirs' = dirs \cup Range(SaveDirChain)
    /\ pc' = "dir_ready"
    /\ UNCHANGED <<run, hostOffset, now, fetch, gets, items, articles,
                   filename, content, files, failure, prev>>

\* os.makedirs raises (permissions, disk): the directories above the one that
\* failed may have been made; the exception ends the run
EnsureDirFails ==
    /\ pc = "rendered"
    /\ SAVE_DIR \notin dirs
    /\ \E k \in 0..(Len(SaveDirChain) - 1) :
          dirs' = dirs \cup {SaveDirChain[i] : i \in 1..k}
    /\ dirCheck' = [existed |-> FALSE, made |-> FALSE]
    /\ failure' = "makedirs"
    /\ pc' = "crashed"
    /\ UNCHANGED <<run, hostOffset, now, fetch, gets, items, articles,
                   filename, content, files, prev>>

\* the mutant of Written: a file that is already there is left as it is
WrittenKeepExisting(fs, path, text) ==
    IF path \in DOMAIN fs THEN fs
    ELSE [p \in (DOMAIN fs) \cup {path} |-> IF p = path THEN text ELSE fs[p]]

\* the file system with text written to path, whatever was there
Written(fs, path, text) ==
    [p \in (DOMAIN fs) \cup {path} |-> IF p = path THEN text ELSE fs[p]]

\* with open(file_path, "w", encoding="utf-8") as f: f.write(content)
WriteFile ==
    /\ pc = "dir_ready"
    /\ files' = Written(files, FilePath(filename), content)
    /\ pc' = "done"
    /\ UNCHANGED <<run, hostOffset, now, fetch, gets, items, articles,
                   filename, content, dirs, dirCheck, failure, prev>>

\* open raises (the file is left as it was), or write raises after open has
\* truncated the file; the exception ends the run
WriteFileFails ==
    /\ pc = "dir_ready"
    /\ \/ files' = files
       \/ files' = Written(files, FilePath(filename), "")
    /\ failure' = "write"
    /\ pc' = "crashed"
    /\ UNCHANGED <<run, hostOffset, now, fetch, gets, items, articles,
                   filename, content, dirs, dirCheck, prev>>

\* the next run of main(): a new process, the same file system and host
NextRun ==
    /\ pc \in {"done", "crashed"}
    /\ run < MaxRuns
    /\ run' = run + 1
    /\ prev' = IF pc = "done"
               THEN <<[filename |-> filename, content |-> content]>>
               ELSE prev
    /\ pc' = "start"
    /\ fetch' = [kind |-> "none", status |-> 0]
    /\ gets' = 0
    /\ items' = <<>>
    /\ articles' = <<>>
    /\ filename' = ""
    /\ content' = ""
    /\ dirCheck' = [existed |-> FALSE, made |-> FALSE]
    /\ failure' = ""
    /\ UNCHANGED <<hostOffset, now, dirs, files>>

\* one run of main() on the full feeds, at two instants, on a host in UTC,
\* with SAVE_DIR absent or present
Init == InitOn({0}, {{}, Range(SaveDirChain)})

Next ==
    \/ FetchCryptoNews(FeedPool)
    \/ GenerateMarkdown(ExampleInstants)
    \/ EnsureDir
    \/ EnsureDirFails
    \/ WriteFile
    \/ WriteFileFails

Spec == Init /\ [][Next]_vars

\* one run of main() on the small feeds, at every instant, on every host and
\* initial file system
InitClock == InitOn(HostOffsets, InitialDirs)

NextClock ==
    \/ FetchCryptoNews(SmallFeedPool)
    \/ GenerateMarkdown(Instants)
    \/ EnsureDir
    \/ EnsureDirFails
    \/ WriteFile
    \/ WriteFileFails

SpecClock == InitClock /\ [][NextClock]_vars

\* repeated runs of main() on the small feeds, on every initial file system
InitRuns == InitOn({0}, InitialDirs)

NextRuns ==
    \/ FetchCryptoNews(SmallFeedPool)
    \/ GenerateMarkdown(FewInstants)
    \/ EnsureDir
    \/ EnsureDirFails
    \/ WriteFile
    \/ WriteFileFails
    \/ NextRun

SpecRuns == InitRuns /\ [][NextRuns]_vars

---------------------------------------------------------------------------
(* Vocabulary of the properties. *)

\* item i of the parsed feed has a keyword, lowered, in its lowered
\* title + " " + description
Matching(i) ==
    LET text == Lower(items[i].title \o " " \o items[i].description)
    IN  \E k \in Range(KEYWORDS) : Contains(text, Lower(k))

\* the feed positions of the matching items, in feed order: Origin[j] is the
\* position of the j-th matching item
Origin ==
    LET retained == {i \in 1..Len(items) : Matching(i)}
    IN  [j \in 1..Cardinality(retained) |->
            CHOOSE i \in retained : Cardinality({h \in retained : h < i}) = j - 1]

\* article a carries the title, link and date of parsed item it
SameItem(a, it) == a.title = it.title /\ a.link = it.link /\ a.date = it.pub_date

\* the position of keyword k in KEYWORDS
KeywordIndex(k) == CHOOSE n \in 1..Len(KEYWORDS) : KEYWORDS[n] = k

\* fetch_crypto_news has returned in this run
Fetched == pc # "start"

\* generate_markdown has returned in this run
Rendered == pc \in {"rendered", "dir_ready", "done", "crashed"}

\* C1: a parsed item has an article in the result if and only if one of the
\* keywords, lowered, is a substring of its lowered title + " " + description.
C1_RetainedIffKeywordMatches ==
    Fetched =>
        \A i \in 1..Len(items) :
            Matching(i) <=> \E j \in 1..Len(articles) : SameItem(articles[j], items[i])

\* C1 witness: a feed of two items of which one matches (by its description
\* only) and the other does not, after the filter has run.
C1_Witness ==
    /\ pc = "fetched"
    /\ Len(items) = 2
    /\ Len(articles) = 1
    /\ \E i \in 1..2 : ~Matching(i)
    /\ \E i \in 1..2 : /\ Matching(i)
                       /\ ~Contains(Lower(items[i].title), "solana")
                       /\ Contains(Lower(items[i].description), "solana")

\* C2: the keywords of every article are exactly the keywords of KEYWORDS that
\* match the item's search text, in the order of KEYWORDS, and are not empty.
C2_KeywordsExactAndOrdered ==
    Fetched =>
        LET origin == Origin
        IN
        /\ Len(articles) = Len(origin)
        /\ \A j \in 1..Len(articles) :
              LET it   == items[origin[j]]
                  text == Lower(it.title \o " " \o it.description)
                  kws  == articles[j].keywords
              IN  /\ kws # <<>>
                  /\ \A k \in Range(KEYWORDS) :
                        (k \in Range(kws)) <=> Contains(text, Lower(k))
                  /\ Range(kws) \subseteq Range(KEYWORDS)
                  /\ \A p, q \in 1..Len(kws) :
                        p < q => KeywordIndex(kws[p]) < KeywordIndex(kws[q])

\* C2 witness: an article with five keywords, matched in mixed case from the
\* title and the description, and the article of the example with "BTC" alone.
C2_Witness ==
    /\ pc = "fetched"
    /\ \E j \in 1..Len(articles) :
          articles[j].keywords = <<"Bitcoin", "Ethereum", "Solana", "ETH", "SOL">>
    /\ \E j \in 1..Len(articles) :
          /\ articles[j].title = "BTC hits new high"
          /\ articles[j].keywords = <<"BTC">>
          /\ articles[j].desc = ""

\* C3: the summary is the description unchanged when it has at most 200
\* characters, and its first 200 characters followed by "..." (203 in all)
\* when it has more.
C3_SummaryTruncation ==
    Fetched =>
        LET origin == Origin
        IN
        /\ Len(articles) = Len(origin)
        /\ \A j \in 1..Len(articles) :
              LET d == items[origin[j]].description
                  s == articles[j].desc
              IN  /\ Len(d) <= 200 => s = d
                  /\ Len(d) > 200 =>
                        /\ Len(s) = 203
                        /\ SubSeq(s, 1, 200) = SubSeq(d, 1, 200)
                        /\ SubSeq(s, 201, 203) = "..."

\* C3 witness: one retained item with a description of exactly 200 characters
\* and one with a description of 250.
C3_Witness ==
    /\ pc = "fetched"
    /\ Len(articles) = 2
    /\ \E j \in 1..2 : Len(items[j].description) = 200 /\ Len(articles[j].desc) = 200
    /\ \E j \in 1..2 : Len(items[j].description) = 250 /\ Len(articles[j].desc) = 203

\* the text of the blocks of articles j..n, as the renderer writes them
RECURSIVE BlocksFrom(_)
BlocksFrom(j) ==
    IF j > Len(articles) THEN ""
    ELSE ArticleBlock(j, articles[j]) \o BlocksFrom(j + 1)

\* C4: the articles are the matching items in feed order, one article for
\* each, and the body ends with the articles' blocks in that same order.
C4_OrderPreserved ==
    /\ Fetched =>
          LET origin == Origin
          IN  /\ Len(articles) = Len(origin)
              /\ \A j \in 1..Len(articles) : SameItem(articles[j], items[origin[j]])
              /\ \A j \in 1..(Len(articles) - 1) : origin[j] < origin[j + 1]
    /\ (Rendered /\ articles # <<>>) =>
          \A j \in 1..Len(articles) :
              LET tail == BlocksFrom(j)
                  blk  == ArticleBlock(j, articles[j])
                  from == Len(content) - Len(tail) + 1
              IN  /\ from >= 1
                  /\ SubSeq(content, from, Len(content)) = tail
                  /\ SubSeq(content, from, from + Len(blk) - 1) = blk

\* C4 witness: a rendered body of two different articles.
C4_Witness ==
    /\ pc = "rendered"
    /\ Len(items) = 2
    /\ Len(articles) = 2
    /\ articles[1].title # articles[2].title

\* the number a string of decimal digits writes (of 2 or of 4 digits)
DigitVal(c) == CHOOSE v \in 0..9 : Char(Digits, v + 1) = c
Num2(s) == DigitVal(Char(s, 1)) * 10 + DigitVal(Char(s, 2))
Num4(s) == Num2(SubSeq(s, 1, 2)) * 100 + Num2(SubSeq(s, 3, 4))

\* every character of s is a decimal digit
AllDigits(s) == \A i \in 1..Len(s) : \E v \in 0..9 : Char(Digits, v + 1) = Char(s, i)

\* the calendar, counted directly: leap years, month lengths, and the day
\* number of y-m-d counted from 1970-01-01
IsLeap(y) == (y % 4 = 0 /\ y % 100 # 0) \/ y % 400 = 0
DaysInMonth(y, m) ==
    IF m = 2 THEN (IF IsLeap(y) THEN 29 ELSE 28)
    ELSE IF m \in {4, 6, 9, 11} THEN 30 ELSE 31
LeapDaysBefore(y) == (y - 1) \div 4 - (y - 1) \div 100 + (y - 1) \div 400
RECURSIVE DaysBeforeMonth(_, _)
DaysBeforeMonth(y, m) ==
    IF m = 1 THEN 0 ELSE DaysBeforeMonth(y, m - 1) + DaysInMonth(y, m - 1)
EpochDay(y, m, d) ==
    365 * (y - 1970) + LeapDaysBefore(y) - LeapDaysBefore(1970)
    + DaysBeforeMonth(y, m) + d - 1

\* C5: the file name is YYYY-MM-DD-period-Brief.md, where YYYY-MM-DD is the
\* calendar date at UTC+9 of the instant of rendering, whatever the host's
\* zone, and period is Morning exactly when the hour at UTC+9 is 0..11 and
\* Evening exactly when it is 12..23; 09:30 and 18:00 on 2024-03-01 give
\* 2024-03-01-Morning-Brief.md and 2024-03-01-Evening-Brief.md.
C5_FileNameInKst ==
    Rendered =>
        LET kst    == now + 9 * 60
            hour   == (kst \div 60) % 24
            y      == Num4(SubSeq(filename, 1, 4))
            m      == Num2(SubSeq(filename, 6, 7))
            d      == Num2(SubSeq(filename, 9, 10))
            period == SubSeq(filename, 12, 18)
        IN  /\ Len(filename) = 27
            /\ AllDigits(SubSeq(filename, 1, 4))
            /\ AllDigits(SubSeq(filename, 6, 7))
            /\ AllDigits(SubSeq(filename, 9, 10))
            /\ Char(filename, 5) = "-" /\ Char(filename, 8) = "-"
            /\ Char(filename, 11) = "-"
            /\ SubSeq(filename, 19, 27) = "-Brief.md"
            /\ m \in 1..12 /\ d \in 1..DaysInMonth(y, m)
            /\ EpochDay(y, m, d) = kst \div 1440
            /\ period \in {"Morning", "Evening"}
            /\ (period = "Morning") <=> (hour \in 0..11)
            /\ (period = "Evening") <=> (hour \in 12..23)
            /\ kst = EpochDay(2024, 3, 1) * 1440 + 9 * 60 + 30
                  => filename = "2024-03-01-Morning-Brief.md"
            /\ kst = EpochDay(2024, 3, 1) * 1440 + 18 * 60
                  => filename = "2024-03-01-Evening-Brief.md"

\* C5 witness: rendered at 15:00 UTC on 2024-02-29 on a host at UTC-5, where
\* it is 10:00 on 2024-02-29: the name carries the date and period of UTC+9.
C5_Witness ==
    /\ pc = "rendered"
    /\ hostOffset = -300
    /\ now = UtcMinutes(2024, 2, 29, 15, 0)
    /\ filename = "2024-03-01-Morning-Brief.md"

\* the fetch of this run failed as the claim counts failure: no response, or
\* a response whose status is not 2xx
FailedAsClaimed == Fetched /\ (fetch.kind # "response" \/ fetch.status \notin 200..299)

\* the fetch of this run failed as the code counts failure: requests raised
\* (no response), or the status is 4xx or 5xx
FailedAsCoded == Fetched /\ (fetch.kind # "response" \/ fetch.status \in 400..599)

\* what a failed fetch is to lead to: no article, one request, a body with the
\* notice once rendered, and that body in the file once written
DegradesToEmptyDigest ==
    /\ articles = <<>>
    /\ gets = 1
    /\ Rendered => Contains(content, NoArticlesNotice)
    /\ pc = "done" =>
          /\ FilePath(filename) \in DOMAIN files
          /\ files[FilePath(filename)] = content

LineStarts(s) == {1} \cup {i + 1 : i \in {h \in 1..(Len(s) - 1) : Char(s, h) = "\n"}}

\* the line of s that starts at p, without its line break
LineAt(s, p) ==
    LET ends == {e \in p..Len(s) : Char(s, e) = "\n"}
    IN  IF ends = {} THEN SubSeq(s, p, Len(s))
        ELSE SubSeq(s, p, (CHOOSE e \in ends : \A f \in ends : e <= f) - 1)

\* line is a numbered level-2 heading: "## ", a number, ". ", a text
IsNumberedHeading(line) ==
    /\ Len(line) >= 3
    /\ SubSeq(line, 1, 3) = "## "
    /\ \E n \in 1..2 : /\ Len(line) >= 3 + n + 2
                       /\ AllDigits(SubSeq(line, 4, 3 + n))
                       /\ SubSeq(line, 4 + n, 5 + n) = ". "

\* the numbered level-2 headings of s, top to bottom
Headings(s) ==
    LET starts == {p \in LineStarts(s) : IsNumberedHeading(LineAt(s, p))}
    IN  [n \in 1..Cardinality(starts) |->
            LineAt(s, CHOOSE p \in starts : Cardinality({q \in starts : q < p}) = n - 1)]

\* C8 as stated: the body of no article holds the notice and no numbered
\* level-2 heading; the body of n >= 1 articles holds no notice and exactly n
\* numbered level-2 headings, the i-th being "## i. " and the i-th title.
C8_HeadingsMatchArticles ==
    Rendered =>
        LET heads == Headings(content)
        IN  /\ articles = <<>> =>
                  /\ Contains(content, NoArticlesNotice)
                  /\ heads = <<>>
            /\ articles # <<>> =>
                  /\ ~Contains(content, NoArticlesNotice)
                  /\ Len(heads) = Len(articles)
                  /\ \A i \in 1..Len(articles) :
                        heads[i] = "## " \o Str(i) \o ". " \o articles[i].title

\* C9: when a run is done, SAVE_DIR exists and the file SAVE_DIR/filename
\* holds exactly the body of that run, whatever was there before (a file of
\* an earlier run with the same name included); and makedirs was not called
\* in a run that found SAVE_DIR present.
C9_FileHoldsLastBody ==
    /\ pc = "done" =>
          /\ SAVE_DIR \in dirs
          /\ FilePath(filename) \in DOMAIN files
          /\ files[FilePath(filename)] = content
    /\ pc \in {"dir_ready", "done"} =>
          /\ SAVE_DIR \in dirs
          /\ dirCheck.existed => ~dirCheck.made

\* C9 witness: the second run is done, under the file name of the first, with
\* another body; SAVE_DIR was found present and the file holds the second body.
C9_Witness ==
    /\ pc = "done"
    /\ run = 2
    /\ prev # <<>>
    /\ prev[1].filename = filename
    /\ prev[1].content # content
    /\ dirCheck.existed
    /\ files[FilePath(filename)] = content

\* C10: in every article, "Ethereum" among the keywords brings "ETH" and
\* "Solana" brings "SOL" (while "Bitcoin" does not bring "BTC", and a short
\* keyword inside a longer word is reported: the witness).
C10_LongKeywordImpliesShort ==
    Fetched =>
        \A j \in 1..Len(articles) :
            LET kws == Range(articles[j].keywords)
            IN  /\ "Ethereum" \in kws => "ETH" \in kws
                /\ "Solana" \in kws => "SOL" \in kws

\* C10 witness: one article with Ethereum and ETH, Solana and SOL, and Bitcoin
\* without BTC; another whose ETH and SOL come from "method" and "resolves".
C10_Witness ==
    /\ pc = "fetched"
    /\ \E j \in 1..Len(articles) :
          LET kws == Range(articles[j].keywords)
          IN  /\ {"Ethereum", "ETH", "Solana", "SOL", "Bitcoin"} \subseteq kws
              /\ "BTC" \notin kws
    /\ \E j \in 1..Len(articles) :
          /\ articles[j].title = "New payment method resolves fees"
          /\ articles[j].desc = ""
          /\ articles[j].keywords = <<"ETH", "SOL">>

============================================================================
